---- MODULE Spec2Model ----
(***************************************************************************)
(* Model of the pipelined management CLI (scripts/pipelined_cli.py) and of *)
(* the subscriber flow-rule control plane it drives.  The CLI handlers are *)
(* translated from the source; the service behind the RPC stub (Rule       *)
(* Store, Flow Rule Controller, Table Allocator, dataplane dump) is not    *)
(* part of the source file and is modelled from its specification.         *)
(*                                                                         *)
(* Strings the CLI splits are sequences of one-character strings, so that  *)
(* str.split(',') is computed and not assumed.                             *)
(***************************************************************************)
EXTENDS Integers, Sequences, FiniteSets, TLC

VARIABLES
  store,        \* Rule Store: set of activation records [sid, origin, rule]
  dataplane,    \* rules installed in the dataplane, same shape as store
  dpOps,        \* dataplane mutations issued by the last RPC
  out,          \* lines the last CLI command printed
  last,         \* the last CLI command: its name, its arguments, its response
  gating,       \* quota-gating rule per subscriber ("none" or a quota state)
  terminated,   \* subscribers whose session received TERMINATE
  assignments,  \* Table Allocator: sequence of [app_name, main_table, scratch_tables]
  fatal,        \* a colliding registration was detected
  lock,         \* per-subscriber mutual exclusion: holder call or 0
  calls,        \* concurrent controller calls: their position and operands
  macFlows,     \* UE MAC table of the dataplane: set of [sid, mac_addr]
  diag          \* a flow display between its table-assignment RPC and its dump

vars == <<store, dataplane, dpOps, out, last, gating, terminated,
          assignments, fatal, lock, calls, macFlows, diag>>

-----------------------------------------------------------------------------
(* Bounds and input sets *)

\* values of --rule_ids the model feeds to the CLI: empty, one id, two ids,
\* a trailing comma (an empty id), the same id twice
RuleIdsArgs ==
  {<<>>, <<"a">>, <<"a", ",", "b">>, <<"a", ",">>, <<"a", ",", "a">>}

\* an argument that was not given on the command line (argparse default None)
None == <<"None">>

IMSIs == {"IMSI12345", "IMSI2"}
DefaultIpv4 == "120.12.1.9"
Priorities == {999, 1000}
RuleIdArgs == {<<>>, <<"a">>}
RedirectAddr == "http://about.sha.ddih.org/"

-----------------------------------------------------------------------------
(* Helpers of the CLI *)

\* Python's str.split(','): the segments between commas; '' gives [''].
RECURSIVE split(_)
split(s) ==
  IF \A i \in 1..Len(s) : s[i] # ","
  THEN <<s>>
  ELSE LET k == CHOOSE i \in 1..Len(s) :
                  s[i] = "," /\ \A j \in 1..(i - 1) : s[j] # ","
       IN <<SubSeq(s, 1, k - 1)>> \o split(SubSeq(s, k + 1, Len(s)))

\* Python truthiness of an optional string argument
Truthy(s) == s # None /\ s # <<>>

\* SIDUtils.to_pb
to_pb(imsi) == [type |-> "IMSI", id |-> imsi]

\* convert_ipv4_str_to_ip_proto
convert_ipv4_str_to_ip_proto(s) == [version |-> "IPV4", address |-> s]

GX == "GX"
GY == "GY"
Origins == {GX, GY}

\* an unset address field (the default message)
NoIp == [version |-> "IPV4", address |-> ""]

NoRedirect == [support |-> 0, address_type |-> 0, server_address |-> ""]

\* priority literal of the redirect rule
RedirectPriority == 999

PolicyRule(id, priority, hard_timeout, flow_list, redirect) ==
  [id |-> id, priority |-> priority, hard_timeout |-> hard_timeout,
   flow_list |-> flow_list, redirect |-> redirect]

-----------------------------------------------------------------------------
(* Requests the CLI builds *)

\* slip: the argument is passed without split(','), so the repeated field is
\* filled with the characters of the string
activate_flows_request_unsplit(args) ==
  [sid |-> to_pb(args.imsi),
   ip_addr |-> args.ipv4,
   rule_ids |-> [i \in 1..Len(args.rule_ids) |-> <<args.rule_ids[i]>>],
   dynamic_rules |-> <<>>,
   request_origin |-> GX]

activate_flows_request(args) ==
  [sid |-> to_pb(args.imsi),
   ip_addr |-> args.ipv4,
   rule_ids |-> split(args.rule_ids),
   dynamic_rules |-> <<>>,
   request_origin |-> GX]

\* slip: tests the argument against None only, so '' is split into ['']
deactivate_flows_request_isnone(args) ==
  [sid |-> to_pb(args.imsi),
   ip_addr |-> args.ipv4,
   rule_ids |-> IF args.rule_ids = None THEN <<>> ELSE split(args.rule_ids),
   request_origin |-> GX]

\* slip: the condition is inverted, a given list is sent as the empty list
deactivate_flows_request_inverted(args) ==
  [sid |-> to_pb(args.imsi),
   ip_addr |-> args.ipv4,
   rule_ids |-> IF Truthy(args.rule_ids) THEN <<>> ELSE split(<<>>),
   request_origin |-> GX]

deactivate_flows_request(args) ==
  [sid |-> to_pb(args.imsi),
   ip_addr |-> args.ipv4,
   rule_ids |-> IF Truthy(args.rule_ids) THEN split(args.rule_ids) ELSE <<>>,
   request_origin |-> GX]

activate_dynamic_rule_request(args) ==
  [sid |-> to_pb(args.imsi),
   ip_addr |-> args.ipv4,
   rule_ids |-> <<>>,
   dynamic_rules |->
     <<PolicyRule(args.rule_id, args.priority, args.hard_timeout,
         <<[ip_dst |-> convert_ipv4_str_to_ip_proto(args.ipv4_dst),
            ip_src |-> NoIp, direction |-> "UPLINK"],
           [ip_dst |-> NoIp,
            ip_src |-> convert_ipv4_str_to_ip_proto(args.ipv4_dst),
            direction |-> "DOWNLINK"]>>,
         NoRedirect)>>,
   request_origin |-> GX]

activate_gy_redirect_request(args) ==
  [sid |-> to_pb(args.imsi),
   ip_addr |-> args.ipv4,
   rule_ids |-> <<>>,
   dynamic_rules |->
     <<PolicyRule(args.rule_id, RedirectPriority, 0, <<>>,
         [support |-> 1, address_type |-> 2,
          server_address |-> args.redirect_addr])>>,
   request_origin |-> GY]

\* slip: copied from deactivate_flows with the origin left at GX
deactivate_gy_flows_request_gx(args) ==
  [sid |-> to_pb(args.imsi),
   ip_addr |-> args.ipv4,
   rule_ids |-> IF Truthy(args.rule_ids) THEN split(args.rule_ids) ELSE <<>>,
   request_origin |-> GX]

deactivate_gy_flows_request(args) ==
  [sid |-> to_pb(args.imsi),
   ip_addr |-> args.ipv4,
   rule_ids |-> IF Truthy(args.rule_ids) THEN split(args.rule_ids) ELSE <<>>,
   request_origin |-> GY]

\* RuleModResult.Result: SUCCESS is mapped to 0
SUCCESS == 0
FAILURE == 2

\* RuleModResult.Result.Name
ResultName(code) ==
  CASE code = 0 -> "SUCCESS"
    [] code = 1 -> "PARTIAL_SUCCESS"
    [] OTHER    -> "FAILURE"

\* slip: prints the message as is, so a result of 0 (SUCCESS) is dropped
RECURSIVE _print_rule_mod_results_default(_)
_print_rule_mod_results_default(results) ==
  IF results = <<>> THEN <<>>
  ELSE (IF Head(results).result = 0 THEN <<>>
        ELSE <<<<Head(results).rule_id, ResultName(Head(results).result)>>>>)
       \o _print_rule_mod_results_default(Tail(results))

_print_rule_mod_results(results) ==
  [i \in 1..Len(results) |->
     <<results[i].rule_id, ResultName(results[i].result)>>]

-----------------------------------------------------------------------------
(* Flow Rule Controller and Rule Store *)

\* content of a static rule, resolved from the external rule database
StaticRule(id) ==
  PolicyRule(id, 0, 0,
             <<[ip_dst |-> NoIp, ip_src |-> NoIp, direction |-> "UPLINK"]>>,
             NoRedirect)

\* a rule needs an id and at least one flow descriptor or a redirect
ValidRule(rule) ==
  /\ rule.id # <<>>
  /\ (Len(rule.flow_list) > 0 \/ rule.redirect.support # 0)

\* the rules of a request, static ids first, in submission order
BatchItems(req) ==
  [i \in 1..Len(req.rule_ids) |-> StaticRule(req.rule_ids[i])]
    \o req.dynamic_rules

Record(sid, origin, rule) == [sid |-> sid, origin |-> origin, rule |-> rule]

SameKey(r, sid, origin, id) ==
  r.sid = sid /\ r.origin = origin /\ r.rule.id = id

DpOp(op, sid, origin, id) == [op |-> op, sid |-> sid, origin |-> origin, id |-> id]

\* upsert one rule and install it; dpFail: the dataplane refuses the install
ProcessRule(st, sid, origin, rule, dpFail) ==
  LET new == Record(sid, origin, rule)
      old == {r \in st.store : SameKey(r, sid, origin, rule.id)}
      res(code) == Append(st.results, [rule_id |-> rule.id, result |-> code])
  IN IF ~ValidRule(rule) THEN [st EXCEPT !.results = res(FAILURE)]
     ELSE IF new \in st.store THEN [st EXCEPT !.results = res(SUCCESS)]
     ELSE IF dpFail THEN [st EXCEPT !.results = res(FAILURE)]
     ELSE [store |-> (st.store \ old) \cup {new},
           dataplane |->
             {d \in st.dataplane : ~SameKey(d, sid, origin, rule.id)} \cup {new},
           ops |-> st.ops \cup {DpOp("install", sid, origin, rule.id)},
           results |-> res(SUCCESS)]

RECURSIVE ProcessBatch(_, _, _, _, _, _)
ProcessBatch(st, sid, origin, items, fails, n) ==
  IF n = 0 THEN st
  ELSE ProcessRule(ProcessBatch(st, sid, origin, items, fails, n - 1),
                   sid, origin, items[n], n \in fails)

\* ActivateFlows: one outcome per rule, a failing rule does not stop the batch
ActivateFlows(st, dp, req, fails) ==
  LET items == BatchItems(req)
      ns == Len(req.rule_ids)
      fin == ProcessBatch([store |-> st, dataplane |-> dp, ops |-> {},
                           results |-> <<>>],
                          req.sid, req.request_origin, items, fails, Len(items))
  IN [store |-> fin.store, dataplane |-> fin.dataplane, ops |-> fin.ops,
      static_rule_results |-> SubSeq(fin.results, 1, ns),
      dynamic_rule_results |-> SubSeq(fin.results, ns + 1, Len(items))]

\* DeactivateFlows: the named records, or every record of (subscriber, origin)
DeactivateFlows(st, dp, req) ==
  LET named == {req.rule_ids[i] : i \in 1..Len(req.rule_ids)}
      hit(r) == /\ r.sid = req.sid
                /\ r.origin = req.request_origin
                /\ (req.rule_ids = <<>> \/ r.rule.id \in named)
      removed == {r \in st : hit(r)}
  IN [store |-> st \ removed,
      dataplane |-> {d \in dp : \A r \in removed :
                        ~SameKey(d, r.sid, r.origin, r.rule.id)},
      ops |-> {DpOp("remove", r.sid, r.origin, r.rule.id) : r \in removed},
      ack |-> "Void"]

-----------------------------------------------------------------------------
(* Initial state *)

Sids == {to_pb(i) : i \in IMSIs}

\* concurrent controller calls of the interleaving model
NumCalls == 2
CallIds == 1..NumCalls

Init ==
  /\ store = {}
  /\ dataplane = {}
  /\ dpOps = {}
  /\ out = <<>>
  /\ last = [cmd |-> "none"]
  /\ gating = [s \in Sids |-> "none"]
  /\ terminated = {}
  /\ assignments = <<>>
  /\ fatal = FALSE
  /\ lock = [s \in Sids |-> 0]
  /\ calls = [c \in CallIds |-> [pc |-> "idle"]]
  /\ macFlows = {}
  /\ diag = [pc |-> "idle"]

-----------------------------------------------------------------------------
(* Enforcement commands of the CLI *)

EnfFrame ==
  UNCHANGED <<gating, terminated, assignments, fatal, lock, calls, macFlows, diag>>

activate_flows(imsi, ipv4, rule_ids, fails) ==
  LET args == [imsi |-> imsi, ipv4 |-> ipv4, rule_ids |-> rule_ids]
      request == activate_flows_request(args)
      response == ActivateFlows(store, dataplane, request, fails)
  IN /\ store' = response.store
     /\ dataplane' = response.dataplane
     /\ dpOps' = response.ops
     /\ out' = _print_rule_mod_results(response.static_rule_results)
     /\ last' = [cmd |-> "activate_flows", args |-> args, fails |-> fails]
     /\ EnfFrame

deactivate_flows(imsi, ipv4, rule_ids) ==
  LET args == [imsi |-> imsi, ipv4 |-> ipv4, rule_ids |-> rule_ids]
      request == deactivate_flows_request(args)
      response == DeactivateFlows(store, dataplane, request)
  IN /\ store' = response.store
     /\ dataplane' = response.dataplane
     /\ dpOps' = response.ops
     /\ out' = <<>>
     /\ last' = [cmd |-> "deactivate_flows", args |-> args, fails |-> {}]
     /\ EnfFrame

activate_dynamic_rule(imsi, ipv4, rule_id, ipv4_dst, priority, hard_timeout, fails) ==
  LET args == [imsi |-> imsi, ipv4 |-> ipv4, rule_id |-> rule_id,
               ipv4_dst |-> ipv4_dst, priority |-> priority,
               hard_timeout |-> hard_timeout]
      request == activate_dynamic_rule_request(args)
      response == ActivateFlows(store, dataplane, request, fails)
  IN /\ store' = response.store
     /\ dataplane' = response.dataplane
     /\ dpOps' = response.ops
     /\ out' = _print_rule_mod_results(response.dynamic_rule_results)
     /\ last' = [cmd |-> "activate_dynamic_rule", args |-> args, fails |-> fails]
     /\ EnfFrame

activate_gy_redirect(imsi, ipv4, rule_id, redirect_addr, fails) ==
  LET args == [imsi |-> imsi, ipv4 |-> ipv4, rule_id |-> rule_id,
               redirect_addr |-> redirect_addr]
      request == activate_gy_redirect_request(args)
      response == ActivateFlows(store, dataplane, request, fails)
  IN /\ store' = response.store
     /\ dataplane' = response.dataplane
     /\ dpOps' = response.ops
     /\ out' = _print_rule_mod_results(response.dynamic_rule_results)
     /\ last' = [cmd |-> "activate_gy_redirect", args |-> args, fails |-> fails]
     /\ EnfFrame

deactivate_gy_flows(imsi, ipv4, rule_ids) ==
  LET args == [imsi |-> imsi, ipv4 |-> ipv4, rule_ids |-> rule_ids]
      request == deactivate_gy_flows_request(args)
      response == DeactivateFlows(store, dataplane, request)
  IN /\ store' = response.store
     /\ dataplane' = response.dataplane
     /\ dpOps' = response.ops
     /\ out' = <<>>
     /\ last' = [cmd |-> "deactivate_gy_flows", args |-> args, fails |-> {}]
     /\ EnfFrame

NextEnf ==
  \/ \E imsi \in IMSIs, rule_ids \in RuleIdsArgs :
       \E fails \in SUBSET (1..Len(split(rule_ids))) :
         activate_flows(imsi, DefaultIpv4, rule_ids, fails)
  \/ \E imsi \in IMSIs, rule_ids \in RuleIdsArgs \cup {None} :
       deactivate_flows(imsi, DefaultIpv4, rule_ids)
  \/ \E imsi \in IMSIs, rule_id \in RuleIdArgs, priority \in Priorities,
        fails \in SUBSET {1} :
       activate_dynamic_rule(imsi, DefaultIpv4, rule_id, <<>>, priority, 0, fails)
  \/ \E imsi \in IMSIs, rule_id \in RuleIdArgs, fails \in SUBSET {1} :
       activate_gy_redirect(imsi, DefaultIpv4, rule_id, RedirectAddr, fails)
  \/ \E imsi \in IMSIs, rule_ids \in RuleIdsArgs \cup {None} :
       deactivate_gy_flows(imsi, DefaultIpv4, rule_ids)

SpecEnf == Init /\ [][NextEnf]_vars

-----------------------------------------------------------------------------
(* Properties of the enforcement commands *)

Range(q) == {q[i] : i \in 1..Len(q)}

ActivateCmds == {"activate_flows", "activate_dynamic_rule", "activate_gy_redirect"}
DeactivateCmds == {"deactivate_flows", "deactivate_gy_flows"}

\* origin a command acts for
CmdOrigin(l) ==
  IF l.cmd \in {"activate_gy_redirect", "deactivate_gy_flows"} THEN GY ELSE GX

\* rule ids an activation command submits, in order
SubmittedIds(l) ==
  IF l.cmd = "activate_flows" THEN split(l.args.rule_ids) ELSE <<l.args.rule_id>>

\* rules an activation command submits, in order
SubmittedRules(l) ==
  CASE l.cmd = "activate_flows" ->
         [i \in 1..Len(split(l.args.rule_ids)) |->
            StaticRule(split(l.args.rule_ids)[i])]
    [] l.cmd = "activate_dynamic_rule" ->
         activate_dynamic_rule_request(l.args).dynamic_rules
    [] OTHER -> activate_gy_redirect_request(l.args).dynamic_rules

\* rule ids a deactivation command names (none: every rule of the origin)
NamedIds(l) ==
  IF Truthy(l.args.rule_ids) THEN Range(split(l.args.rule_ids)) ELSE {}

HasRecord(S, sid, origin, id) == \E r \in S : SameKey(r, sid, origin, id)

\* C1: a deactivation with an empty rule-id set for (S, O) removes every record
\* of (S, O) from the store and the dataplane and leaves every record of the
\* other origin and of every other subscriber as it was.
C1_DeactivateAllFrame ==
  [][(last'.cmd \in DeactivateCmds /\ ~Truthy(last'.args.rule_ids)) =>
       LET sid == to_pb(last'.args.imsi)
           o == CmdOrigin(last')
       IN /\ store' = {r \in store : ~(r.sid = sid /\ r.origin = o)}
          /\ dataplane' = {r \in dataplane : ~(r.sid = sid /\ r.origin = o)}]_vars

\* a deactivate-all for POLICY removed something while a CHARGING record of the
\* same subscriber and a record of another subscriber stay
C1_Witness ==
  /\ last.cmd = "deactivate_flows"
  /\ ~Truthy(last.args.rule_ids)
  /\ \E op \in dpOps : op.op = "remove" /\ op.origin = GX
  /\ \E r \in store : r.sid = to_pb(last.args.imsi) /\ r.origin = GY
  /\ \E r \in store : r.sid # to_pb(last.args.imsi) /\ r.origin = GX

\* how two installed rules compare on overlapping matches: the higher priority
\* wins, ties go to the CHARGING origin
HigherPriority(r1, r2) ==
  \/ r1.rule.priority > r2.rule.priority
  \/ r1.rule.priority = r2.rule.priority /\ r1.origin = GY /\ r2.origin = GX

\* C2: every installed CHARGING redirect rule has a strictly higher effective
\* priority than every installed POLICY rule of the same subscriber, whatever
\* priority the caller gave the POLICY rule.
C2_RedirectAlwaysHigher ==
  \A g \in store, p \in store :
    (/\ g.origin = GY
     /\ g.rule.redirect.support # 0
     /\ p.origin = GX
     /\ p.sid = g.sid) => HigherPriority(g, p)

\* C4: a successful activation of R for (S, O) immediately followed by a
\* deactivation naming R for (S, O) leaves no record of (S, R, O) in the store
\* and no entry of it in the dataplane.
C4_ActivateThenDeactivate ==
  [][(/\ last.cmd \in ActivateCmds
      /\ last'.cmd \in DeactivateCmds
      /\ last'.args.imsi = last.args.imsi
      /\ CmdOrigin(last') = CmdOrigin(last)) =>
       \A id \in NamedIds(last') :
         (\E i \in 1..Len(out) : out[i] = <<id, "SUCCESS">>) =>
           /\ ~HasRecord(store', to_pb(last.args.imsi), CmdOrigin(last), id)
           /\ ~HasRecord(dataplane', to_pb(last.args.imsi), CmdOrigin(last), id)]_vars

\* a CHARGING deactivation naming a rule issued the removal of that rule, which
\* therefore was active, and the rule is gone
C4_Witness ==
  /\ last.cmd = "deactivate_gy_flows"
  /\ \E id \in NamedIds(last) :
       /\ DpOp("remove", to_pb(last.args.imsi), GY, id) \in dpOps
       /\ ~HasRecord(store, to_pb(last.args.imsi), GY, id)

\* C5: activating a rule that is already active for (S, R, O) with identical
\* content leaves its store record and dataplane entry as they are, issues no
\* dataplane operation for it and reports SUCCESS; when every submitted rule is
\* such a rule the call changes nothing (twice is the same as once).
C5_ReactivateIdempotent ==
  [][last'.cmd \in ActivateCmds =>
       LET sid == to_pb(last'.args.imsi)
           o == CmdOrigin(last')
           rules == SubmittedRules(last')
           active(i) == Record(sid, o, rules[i]) \in store
       IN /\ \A i \in 1..Len(rules) : active(i) =>
               /\ Record(sid, o, rules[i]) \in store'
               /\ Record(sid, o, rules[i]) \in dataplane'
               /\ \A op \in dpOps' :
                    ~(op.sid = sid /\ op.origin = o /\ op.id = rules[i].id)
               /\ Len(out') = Len(rules)
               /\ out'[i] = <<rules[i].id, "SUCCESS">>
          /\ (\A i \in 1..Len(rules) : active(i)) =>
               /\ store' = store
               /\ dataplane' = dataplane
               /\ dpOps' = {}]_vars

\* rule a was submitted while the dataplane refused installs, and still reports
\* SUCCESS with no dataplane operation: it was active with the same content
C5_Witness ==
  /\ last.cmd = "activate_flows"
  /\ last.args.rule_ids = <<"a">>
  /\ last.fails = {1}
  /\ out = <<<<<<"a">>, "SUCCESS">>>>
  /\ dpOps = {}
  /\ Record(to_pb(last.args.imsi), GX, StaticRule(<<"a">>)) \in dataplane

\* C6: an activation prints one outcome per submitted rule, in order and under
\* that rule's id; a rule that fails validation gets a failure outcome, every
\* valid rule the dataplane did not refuse reports SUCCESS, a failure outcome is
\* given only to a rule that is invalid or that the dataplane refused, and
\* every rule reporting SUCCESS is installed in the store and the dataplane.
C6_OneOutcomePerRule ==
  last.cmd \in ActivateCmds =>
    LET sid == to_pb(last.args.imsi)
        o == CmdOrigin(last)
        ids == SubmittedIds(last)
    IN /\ Len(out) = Len(ids)
       /\ \A i \in 1..Len(ids) :
            /\ out[i][1] = ids[i]
            /\ ids[i] = <<>> => out[i][2] = "FAILURE"
            /\ (ids[i] # <<>> /\ i \notin last.fails) => out[i][2] = "SUCCESS"
            /\ out[i][2] \in {"SUCCESS", "FAILURE"}
            /\ out[i][2] = "FAILURE" => (ids[i] = <<>> \/ i \in last.fails)
            /\ out[i][2] = "SUCCESS" =>
                 /\ HasRecord(store, sid, o, ids[i])
                 /\ HasRecord(dataplane, sid, o, ids[i])

\* a batch in which one rule failed and another was installed and reports SUCCESS
C6_Witness ==
  /\ last.cmd = "activate_flows"
  /\ Len(out) = 2
  /\ out[1][2] = "FAILURE"
  /\ out[2][2] = "SUCCESS"
  /\ DpOp("install", to_pb(last.args.imsi), GX, out[2][1]) \in dpOps

\* C8: a deactivation naming rule ids issues no dataplane removal for an id
\* that has no record of (S, O), prints nothing, and when none of the named ids
\* has a record leaves the store and the dataplane unchanged; repeating a
\* deactivation changes nothing.
C8_DeactivateMissing ==
  [][last'.cmd \in DeactivateCmds =>
       LET sid == to_pb(last'.args.imsi)
           o == CmdOrigin(last')
           named == NamedIds(last')
           missing == {id \in named : ~HasRecord(store, sid, o, id)}
       IN /\ out' = <<>>
          /\ \A op \in dpOps' :
               ~(op.sid = sid /\ op.origin = o /\ op.id \in missing)
          /\ (named # {} /\ missing = named) =>
               /\ store' = store
               /\ dataplane' = dataplane
               /\ dpOps' = {}
          /\ (last.cmd = last'.cmd /\ last.args = last'.args) =>
               /\ store' = store
               /\ dataplane' = dataplane
               /\ dpOps' = {}]_vars

\* a deactivation named only absent rules while the subscriber has other
\* POLICY records, and nothing was removed
C8_Witness ==
  /\ last.cmd = "deactivate_flows"
  /\ NamedIds(last) # {}
  /\ dpOps = {}
  /\ \E r \in store : r.sid = to_pb(last.args.imsi) /\ r.origin = GX
  /\ \A r \in store : r.sid = to_pb(last.args.imsi) => r.rule.id \notin NamedIds(last)

-----------------------------------------------------------------------------
(* Check Quota command *)

Macs == {"5e:cc:cc:b1:49:ff", "5e:cc:cc:b1:49:00"}

\* update_type: 0 - valid quota, 1 - no quota, 2 - terminate
UpdateTypes == {0, 1, 2}

QuotaStateName(update_type) ==
  CASE update_type = 0 -> "VALID"
    [] update_type = 1 -> "EXHAUSTED"
    [] OTHER           -> "TERMINATE"

\* slip: update_type is left out of the message, so it keeps its default 0
update_quota_request_notype(args) ==
  [updates |-> <<[sid |-> to_pb(args.imsi), mac_addr |-> args.mac,
                  update_type |-> 0]>>]

update_quota_request(args) ==
  [updates |-> <<[sid |-> to_pb(args.imsi), mac_addr |-> args.mac,
                  update_type |-> args.update_type]>>]

\* one quota update: TERMINATE removes the gating rule and ends the session,
\* VALID and EXHAUSTED set the rule's content unless the session has ended
ApplyQuotaUpdate(qs, u) ==
  IF u.sid \in qs.terminated THEN qs
  ELSE IF QuotaStateName(u.update_type) = "TERMINATE"
       THEN [gating |-> [qs.gating EXCEPT ![u.sid] = "none"],
             terminated |-> qs.terminated \cup {u.sid}]
       ELSE [gating |-> [qs.gating EXCEPT ![u.sid] =
                           <<u.mac_addr, QuotaStateName(u.update_type)>>],
             terminated |-> qs.terminated]

RECURSIVE UpdateSubscriberQuotaState(_, _, _)
UpdateSubscriberQuotaState(qs, updates, n) ==
  IF n = 0 THEN qs
  ELSE ApplyQuotaUpdate(UpdateSubscriberQuotaState(qs, updates, n - 1), updates[n])

\* what the stub hands back: the Void message, or None
VoidAnswer == <<"Void">>
Answers == {VoidAnswer, None}

\* the service applies the request it received; res is what the stub returns
update_quota(imsi, mac, update_type, res) ==
  LET args == [imsi |-> imsi, mac |-> mac, update_type |-> update_type]
      request == update_quota_request(args)
      qs == UpdateSubscriberQuotaState(
              [gating |-> gating, terminated |-> terminated],
              request.updates, Len(request.updates))
  IN /\ gating' = qs.gating
     /\ terminated' = qs.terminated
     /\ out' = (IF res = None THEN <<"Error updating check quota flows">>
                ELSE <<>>)
     /\ last' = [cmd |-> "update_quota", args |-> args, fails |-> {}, res |-> res]
     /\ UNCHANGED <<store, dataplane, dpOps, assignments, fatal, lock, calls,
                    macFlows, diag>>

-----------------------------------------------------------------------------
(* UE MAC commands *)

UEMacFlowRequest(args) == [sid |-> to_pb(args.imsi), mac_addr |-> args.mac]

\* AddUEMacFlow: bind the hardware address to the subscriber (idempotent)
AddUEMacFlow(flows, request) ==
  flows \cup {[sid |-> request.sid, mac_addr |-> request.mac_addr]}

\* DeleteUEMacFlow: remove the binding if it is there (idempotent)
DeleteUEMacFlow(flows, request) ==
  flows \ {[sid |-> request.sid, mac_addr |-> request.mac_addr]}

MacFrame ==
  UNCHANGED <<store, dataplane, dpOps, gating, terminated, assignments, fatal,
              lock, calls, diag>>

add_ue_mac_flow(imsi, mac, res) ==
  LET args == [imsi |-> imsi, mac |-> mac]
      request == UEMacFlowRequest(args)
  IN /\ macFlows' = AddUEMacFlow(macFlows, request)
     /\ out' = (IF res = None THEN <<"Error associating MAC to IMSI">> ELSE <<>>)
     /\ last' = [cmd |-> "add_ue_mac_flow", args |-> args, fails |-> {}, res |-> res]
     /\ MacFrame

delete_ue_mac_flow(imsi, mac, res) ==
  LET args == [imsi |-> imsi, mac |-> mac]
      request == UEMacFlowRequest(args)
  IN /\ macFlows' = DeleteUEMacFlow(macFlows, request)
     /\ out' = (IF res = None THEN <<"Error associating MAC to IMSI">> ELSE <<>>)
     /\ last' = [cmd |-> "delete_ue_mac_flow", args |-> args, fails |-> {}, res |-> res]
     /\ MacFrame

NextQuota ==
  \/ \E imsi \in IMSIs, mac \in Macs, update_type \in UpdateTypes,
        res \in Answers : update_quota(imsi, mac, update_type, res)
  \/ \E imsi \in IMSIs, mac \in Macs, res \in Answers :
       add_ue_mac_flow(imsi, mac, res)
  \/ \E imsi \in IMSIs, mac \in Macs, res \in Answers :
       delete_ue_mac_flow(imsi, mac, res)

SpecQuota == Init /\ [][NextQuota]_vars

\* C9: a TERMINATE update removes the subscriber's gating rule, and TERMINATE is
\* terminal: once a session has ended no later update brings the gating rule
\* back; a VALID or EXHAUSTED update of a live session leaves the rule present
\* with the content of that update.
C9_TerminateRemovesAndIsTerminal ==
  /\ [](last.cmd = "update_quota" =>
          LET sid == to_pb(last.args.imsi)
          IN IF last.args.update_type = 2
             THEN gating[sid] = "none" /\ sid \in terminated
             ELSE \/ sid \in terminated /\ gating[sid] = "none"
                  \/ gating[sid] =
                       <<last.args.mac, QuotaStateName(last.args.update_type)>>)
  /\ [][\A sid \in terminated :
          sid \in terminated' /\ gating'[sid] = "none"]_vars

\* a VALID update arrived after TERMINATE and the gating rule stayed removed
C9_Witness ==
  /\ last.cmd = "update_quota"
  /\ last.args.update_type = 0
  /\ to_pb(last.args.imsi) \in terminated
  /\ gating[to_pb(last.args.imsi)] = "none"

-----------------------------------------------------------------------------
(* Table Allocator *)

\* table numbers the layout may use
MaxTable == 3
TableNums == 1..MaxTable

\* EnforcementController.APP_NAME, EnforcementStatsController.APP_NAME
EnforcementApp == <<"e">>
EnforcementStatsApp == <<"s">>
AppNames == {EnforcementApp, EnforcementStatsApp}

\* values of --apps the model feeds to the CLI
AppsArgs == {<<>>, <<"e">>, <<"s">>, <<"e", ",", "s">>, <<"e", "s">>}

\* values of --apps the model feeds to display_flows
DisplayAppsArgs == {<<"e">>}

\* scratch-table layouts: none, or one table
ScratchLayouts == {<<>>} \cup {<<t>> : t \in TableNums}

TablesOf(a) == {a.main_table} \cup Range(a.scratch_tables)

AssignedTables(asg) == UNION {TablesOf(asg[i]) : i \in 1..Len(asg)}

\* slip: the collision check is left out and every layout is accepted
FreeLayout_unchecked(asg, main, scratch) == TRUE

\* a layout whose tables are its own and not taken by a registered application
FreeLayout(asg, main, scratch) ==
  /\ main \notin Range(scratch)
  /\ ({main} \cup Range(scratch)) \cap AssignedTables(asg) = {}

\* register(app_name): assign the configured layout; a collision is fatal
Register(app, main, scratch) ==
  /\ ~fatal
  /\ \A i \in 1..Len(assignments) : assignments[i].app_name # app
  /\ IF FreeLayout(assignments, main, scratch)
     THEN /\ assignments' = Append(assignments,
                               [app_name |-> app, main_table |-> main,
                                scratch_tables |-> scratch])
          /\ fatal' = FALSE
     ELSE /\ assignments' = assignments
          /\ fatal' = TRUE
  /\ out' = <<>>
  /\ last' = [cmd |-> "register", args |-> [app |-> app], fails |-> {}]
  /\ UNCHANGED <<store, dataplane, dpOps, gating, terminated, lock, calls,
                 macFlows, diag>>

\* GetAllTableAssignments
GetAllTableAssignments == [table_assignments |-> assignments]

-----------------------------------------------------------------------------
(* Debugging commands *)

DiagFrame ==
  UNCHANGED <<store, dataplane, dpOps, gating, terminated, assignments,
              fatal, lock, calls, macFlows>>

\* rows get_table_assignment prints under the header
table_assignment_rows(table_assignments, apps) ==
  LET app_filter == split(apps)
      keep(a) == a.app_name \in Range(app_filter)
      shown == IF Truthy(apps) THEN SelectSeq(table_assignments, keep)
               ELSE table_assignments
  IN [i \in 1..Len(shown) |->
        <<shown[i].app_name, shown[i].main_table, shown[i].scratch_tables>>]

TableHeader == <<<<"App", "Main Table", "Scratch Tables">>, <<"-">>>>

get_table_assignment(apps) ==
  LET response == GetAllTableAssignments
  IN /\ ~fatal
     /\ out' = TableHeader \o table_assignment_rows(response.table_assignments, apps)
     /\ last' = [cmd |-> "table_assignment", args |-> [apps |-> apps], fails |-> {}]
     /\ UNCHANGED diag
     /\ DiagFrame

\* errno.EPERM
EPERM == 1
ReturnCodes == {1, 2}
RootMessage == <<"Need to run as root to dump flows">>

\* outcomes of the dump command: it runs, or exits with a non-zero status
DumpOutcomes ==
  {[kind |-> "ok", returncode |-> 0]}
    \cup {[kind |-> "CalledProcessError", returncode |-> rc] : rc \in ReturnCodes}

\* table the enforcement rules are installed in
EnforcementTable ==
  LET i == CHOOSE i \in 1..Len(assignments) :
             assignments[i].app_name = EnforcementApp
  IN assignments[i].main_table

EnforcementRegistered ==
  \E i \in 1..Len(assignments) : assignments[i].app_name = EnforcementApp

RECURSIVE SetToSeq(_)
SetToSeq(S) ==
  IF S = {} THEN <<>>
  ELSE LET x == CHOOSE x \in S : TRUE IN <<x>> \o SetToSeq(S \ {x})

\* dump(table_or_all): one raw flow record per installed rule
AllFlows ==
  IF EnforcementRegistered
  THEN SetToSeq({[table |-> EnforcementTable, sid |-> d.sid, rule |-> d.rule.id]
                   : d \in dataplane})
  ELSE <<>>

\* BridgeTools.get_flows_for_bridge; table_num: {} when not given
get_flows_for_bridge(table_num) ==
  LET keep(f) == table_num = {} \/ f.table \in table_num
  IN SelectSeq(AllFlows, keep)

\* application owning a table, <<>> when no registered application does
OwnerOf(table_assignments, t) ==
  IF \E app \in DOMAIN table_assignments : t \in TablesOf(table_assignments[app])
  THEN CHOOSE app \in DOMAIN table_assignments :
         t \in TablesOf(table_assignments[app])
  ELSE <<>>

\* BridgeTools.get_annotated_flows_for_bridge; apps: None for every flow
get_annotated_flows_for_bridge(table_assignments, apps) ==
  LET keep(f) == apps = None \/ OwnerOf(table_assignments, f.table) \in Range(apps)
      shown == SelectSeq(AllFlows, keep)
  IN [i \in 1..Len(shown) |->
        [flow |-> shown[i], app |-> OwnerOf(table_assignments, shown[i].table)]]

\* asks the service nothing: it loads the configuration and runs the dump
display_raw_flows(table_num, dump) ==
  /\ IF dump.kind = "CalledProcessError"
     THEN out' = (IF dump.returncode = EPERM THEN RootMessage ELSE <<>>)
     ELSE out' = get_flows_for_bridge(table_num)
  /\ last' = [cmd |-> "display_raw_flows", args |-> [table_num |-> table_num],
              fails |-> {}, dump |-> dump]
  /\ UNCHANGED diag
  /\ DiagFrame

\* _display_flows up to the answer of GetAllTableAssignments: the command now
\* holds the assignments it was told and has yet to run the dump
_display_flows_rpc(cmd, args, apps) ==
  /\ ~fatal
  /\ diag.pc = "idle"
  /\ diag' = [pc |-> "dump", cmd |-> cmd, args |-> args, apps |-> apps,
              response |-> GetAllTableAssignments]
  /\ UNCHANGED <<out, last>>
  /\ DiagFrame

\* what _display_flows prints from the assignments it was told and the dump it
\* then ran; apps: None or a list of application names
_display_flows_print(response, apps, dump) ==
  LET names == {response.table_assignments[i].app_name :
                  i \in 1..Len(response.table_assignments)}
      table_assignments ==
        [n \in names |->
           LET i == CHOOSE i \in 1..Len(response.table_assignments) :
                      response.table_assignments[i].app_name = n
           IN [main_table |-> response.table_assignments[i].main_table,
               type |-> None,
               scratch_tables |-> response.table_assignments[i].scratch_tables]]
  IN IF dump.kind = "CalledProcessError"
     THEN (IF dump.returncode = EPERM THEN RootMessage ELSE <<>>)
     ELSE get_annotated_flows_for_bridge(table_assignments, apps)

\* _display_flows from the dump on: the dump reads the dataplane as it is now
_display_flows_dump(dump) ==
  /\ diag.pc = "dump"
  /\ out' = _display_flows_print(diag.response, diag.apps, dump)
  /\ last' = [cmd |-> diag.cmd, args |-> diag.args, fails |-> {}, dump |-> dump]
  /\ diag' = [pc |-> "idle"]
  /\ DiagFrame

display_flows(apps) ==
  IF apps = None
  THEN _display_flows_rpc("display_flows", [apps |-> apps], None)
  ELSE _display_flows_rpc("display_flows", [apps |-> apps], split(apps))

display_enforcement_flows ==
  _display_flows_rpc("display_enforcement_flows", [apps |-> None],
                     <<EnforcementApp, EnforcementStatsApp>>)

NextTables ==
  \/ \E app \in AppNames, main \in TableNums, scratch \in ScratchLayouts :
       Register(app, main, scratch)
  \/ \E apps \in AppsArgs \cup {None} : get_table_assignment(apps)
  \/ \E table_num \in {{}} \cup {{t} : t \in TableNums}, dump \in DumpOutcomes :
       display_raw_flows(table_num, dump)
  \/ \E apps \in DisplayAppsArgs \cup {None} : display_flows(apps)
  \/ display_enforcement_flows
  \/ \E dump \in DumpOutcomes : _display_flows_dump(dump)
  \/ /\ EnforcementRegistered
     /\ ~fatal
     /\ activate_flows("IMSI12345", DefaultIpv4, <<"a">>, {})
  \/ /\ EnforcementRegistered
     /\ ~fatal
     /\ deactivate_flows("IMSI12345", DefaultIpv4, None)

SpecTables == Init /\ [][NextTables]_vars

\* C7: the table sets (main plus scratch) of two distinct registered
\* applications are disjoint, in the allocator and in what table_assignment
\* reports (every printed row is the assignment of a registered application,
\* and no two printed rows share a table), and no register, activate,
\* deactivate or diagnostics operation changes an existing assignment.
C7_TablesDisjoint ==
  /\ [](/\ \A i, j \in 1..Len(assignments) : i # j =>
             /\ assignments[i].app_name # assignments[j].app_name
             /\ TablesOf(assignments[i]) \cap TablesOf(assignments[j]) = {}
        /\ last.cmd = "table_assignment" =>
             LET rows == SubSeq(out, 3, Len(out))
             IN /\ \A i \in 1..Len(rows) :
                     \E k \in 1..Len(assignments) :
                       rows[i] = <<assignments[k].app_name,
                                   assignments[k].main_table,
                                   assignments[k].scratch_tables>>
                /\ \A i, j \in 1..Len(rows) : i # j =>
                     /\ rows[i][1] # rows[j][1]
                     /\ ({rows[i][2]} \cup Range(rows[i][3]))
                          \cap ({rows[j][2]} \cup Range(rows[j][3])) = {})
  /\ [][\A i \in 1..Len(assignments) :
          i <= Len(assignments') /\ assignments'[i] = assignments[i]]_vars

\* two applications are registered, one of them with a scratch table, rules
\* were activated, and table_assignment printed both rows
C7_Witness ==
  /\ Len(assignments) = 2
  /\ \E i \in 1..2 : assignments[i].scratch_tables # <<>>
  /\ last.cmd = "table_assignment"
  /\ Len(out) = 4
  /\ dataplane # {}

\* C10: a dump that fails, for lack of privilege or otherwise, is never
\* rendered as an empty listing with no message.
C10_DumpFailureNeverSilent ==
  (/\ last.cmd \in {"display_raw_flows", "display_flows", "display_enforcement_flows"}
   /\ last.dump.kind = "CalledProcessError") => out # <<>>

-----------------------------------------------------------------------------
(* Concurrent ActivateFlows / DeactivateFlows calls *)

ConcRuleIds == {<<"a">>}

\* the mutual-exclusion scope of subscriber s is not taken
LockFree_ignored(s) == TRUE

LockFree(s) == lock[s] = 0

ConcFrame ==
  UNCHANGED <<out, last, gating, terminated, assignments, fatal, macFlows, diag>>

\* a call arrives and waits for its subscriber's scope
CallBegin(c, sid, op, id) ==
  /\ calls[c].pc = "idle"
  /\ calls' = [calls EXCEPT ![c] =
                 [pc |-> "wait", sid |-> sid, op |-> op, id |-> id, prev |-> {}]]
  /\ UNCHANGED <<store, dataplane, dpOps, lock>>
  /\ ConcFrame

Acquire(c) ==
  /\ calls[c].pc = "wait"
  /\ LockFree(calls[c].sid)
  /\ lock' = [lock EXCEPT ![calls[c].sid] = c]
  /\ calls' = [calls EXCEPT ![c].pc = "store"]
  /\ UNCHANGED <<store, dataplane, dpOps>>
  /\ ConcFrame

\* Rule Store half of the call: upsert or remove
StoreStep(c) ==
  LET k == calls[c]
      old == {r \in store : SameKey(r, k.sid, GX, k.id)}
  IN /\ k.pc = "store"
     /\ store' = IF k.op = "activate"
                 THEN (store \ old) \cup {Record(k.sid, GX, StaticRule(k.id))}
                 ELSE store \ old
     /\ calls' = [calls EXCEPT ![c].pc = "dataplane", ![c].prev = old]
     /\ UNCHANGED <<dataplane, dpOps, lock>>
     /\ ConcFrame

\* dataplane half of the call; a refused install takes the store change back
DataplaneStep(c, dpFail) ==
  LET k == calls[c]
      new == Record(k.sid, GX, StaticRule(k.id))
      rest == {d \in dataplane : ~SameKey(d, k.sid, GX, k.id)}
  IN /\ k.pc = "dataplane"
     /\ IF k.op = "deactivate"
        THEN /\ dataplane' = rest
             /\ store' = store
        ELSE IF dpFail /\ new \notin k.prev
        THEN /\ dataplane' = dataplane
             /\ store' = (store \ {new}) \cup k.prev
        ELSE /\ dataplane' = rest \cup {new}
             /\ store' = store
     /\ dpOps' = {}
     /\ calls' = [calls EXCEPT ![c].pc = "release"]
     /\ UNCHANGED lock
     /\ ConcFrame

Release(c) ==
  /\ calls[c].pc = "release"
  /\ lock' = [lock EXCEPT ![calls[c].sid] = 0]
  /\ calls' = [calls EXCEPT ![c] = [pc |-> "idle"]]
  /\ UNCHANGED <<store, dataplane, dpOps>>
  /\ ConcFrame

NextConc ==
  \/ \E c \in CallIds, sid \in Sids, op \in {"activate", "deactivate"},
        id \in ConcRuleIds : CallBegin(c, sid, op, id)
  \/ \E c \in CallIds : Acquire(c)
  \/ \E c \in CallIds : StoreStep(c)
  \/ \E c \in CallIds, dpFail \in BOOLEAN : DataplaneStep(c, dpFail)
  \/ \E c \in CallIds : Release(c)

SpecConc == Init /\ [][NextConc]_vars

InProgress(c, s) == calls[c].pc # "idle" /\ calls[c].sid = s
Updating(c) == calls[c].pc \in {"store", "dataplane", "release"}

\* C3: whenever no call is in progress for a subscriber, the records active for
\* it in the Rule Store are exactly its rules installed in the dataplane; and
\* two calls for the same subscriber are never both between taking the scope
\* and releasing it, so their store and dataplane updates do not interleave.
C3_StoreMatchesDataplane ==
  /\ \A s \in Sids :
       (\A c \in CallIds : ~InProgress(c, s)) =>
         {r \in store : r.sid = s} = {d \in dataplane : d.sid = s}
  /\ \A c1, c2 \in CallIds :
       (c1 # c2 /\ Updating(c1) /\ Updating(c2)) => calls[c1].sid # calls[c2].sid

\* two calls for one subscriber overlap: one has updated the store and not yet
\* the dataplane, the other waits for the scope
C3_Witness ==
  \E c1, c2 \in CallIds :
    /\ calls[c1].pc = "dataplane"
    /\ calls[c1].op = "activate"
    /\ calls[c2].pc = "wait"
    /\ calls[c2].sid = calls[c1].sid
    /\ {r \in store : r.sid = calls[c1].sid} # {d \in dataplane : d.sid = calls[c1].sid}

====
